---- MODULE Spec2Model ----
(***************************************************************************)
(* Model of validate-commit: validate_commit_message (src/src/lib.rs) and  *)
(* the header parser (src/src/parse.rs), with the error values of          *)
(* src/src/errors.rs.                                                      *)
(*                                                                         *)
(* A Rust &str is modelled as the sequence of its UTF-8 bytes.  An ASCII   *)
(* byte is the one-character string of its character; the two bytes of     *)
(* U+00E9 are written "C3" and "A9".  All lengths and offsets are byte     *)
(* offsets, as str::len, str::find and slicing produce them.  The carriage *)
(* return is not part of the alphabet.                                     *)
(***************************************************************************)
EXTENDS Integers, Sequences, FiniteSets, TLC

VARIABLES input, pc, lines, message, result

vars == <<input, pc, lines, message, result>>

-----------------------------------------------------------------------------
(* Text helpers: the std operations the source calls.                      *)

ContinuationBytes == {"A9"}

Whitespace == {" ", "\t"}

Uppercase == {"A", "B", "C", "D", "E", "F", "G", "H", "I", "J", "K", "L", "M",
              "N", "O", "P", "Q", "R", "S", "T", "U", "V", "W", "X", "Y", "Z"}

\* &s[a..b], byte offsets, half open
Slice(s, a, b) == SubSeq(s, a + 1, b)

starts_with(s, p) == Len(s) >= Len(p) /\ SubSeq(s, 1, Len(p)) = p

\* str::find(c): Some(byte offset of the first c) as <<offset>>, None as <<>>
find(s, c) ==
    LET hits == {i \in 1..Len(s) : s[i] = c}
    IN  IF hits = {} THEN <<>>
        ELSE <<(CHOOSE i \in hits : \A j \in hits : i <= j) - 1>>

is_char_boundary(s, i) ==
    \/ i = 0
    \/ i = Len(s)
    \/ i < Len(s) /\ s[i + 1] \notin ContinuationBytes

\* str::get(a..b): Some(slice) as <<slice>>, None as <<>>
get(s, a, b) ==
    IF a <= b /\ b <= Len(s) /\ is_char_boundary(s, a) /\ is_char_boundary(s, b)
    THEN <<Slice(s, a, b)>>
    ELSE <<>>

\* str::trim
trim(s) ==
    LET keep == {i \in 1..Len(s) : s[i] \notin Whitespace}
    IN  IF keep = {} THEN <<>>
        ELSE SubSeq(s, CHOOSE i \in keep : \A j \in keep : i <= j,
                       CHOOSE i \in keep : \A j \in keep : i >= j)

\* str::lines: split at "\n", no empty last line after a final "\n"
str_lines(s) ==
    LET nl == {i \in 1..Len(s) : s[i] = "\n"}
        nth(j) == IF j = 0 THEN 0
                  ELSE IF j > Cardinality(nl) THEN Len(s) + 1
                  ELSE CHOOSE i \in nl : Cardinality({m \in nl : m <= i}) = j
        pieces == [j \in 1..(Cardinality(nl) + 1) |->
                      SubSeq(s, nth(j - 1) + 1, nth(j) - 1)]
    IN  IF pieces[Len(pieces)] = <<>>
        THEN SubSeq(pieces, 1, Len(pieces) - 1)
        ELSE pieces

-----------------------------------------------------------------------------
(* Error values (errors.rs).                                               *)

\* FormatError { kind, location: None }
NoLocation == <<>>

\* Span::new(line, pos)
Span(line, pos) == [line |-> line, pos |-> pos]

NoError == [kind |-> "None", arg |-> 0, location |-> NoLocation]

\* From<FormatErrorKind> for FormatError: no location
FromKind(kind) == [kind |-> kind, arg |-> 0, location |-> NoLocation]

\* FormatErrorKind::at / FormatError::at / FormatError::with_span
At(kind, line, pos) == [kind |-> kind, arg |-> 0, location |-> <<Span(line, pos)>>]

-----------------------------------------------------------------------------
(* CommitType and its two text mappings (lib.rs).                          *)

CommitType == {"Feat", "Fix", "Docs", "Style", "Refactor", "Perf", "Test", "Chore"}

\* impl From<CommitType> for &'static str
into_str(t) ==
    CASE t = "Feat"     -> <<"f", "e", "a", "t">>
      [] t = "Fix"      -> <<"f", "i", "x">>
      [] t = "Docs"     -> <<"d", "o", "c", "x">>
      [] t = "Style"    -> <<"s", "t", "y", "l", "e">>
      [] t = "Refactor" -> <<"r", "e", "f", "a", "c", "t", "o", "r">>
      [] t = "Perf"     -> <<"p", "e", "r", "f">>
      [] t = "Test"     -> <<"t", "e", "s", "t">>
      [] t = "Chore"    -> <<"c", "h", "o", "r", "e">>

\* a from_str whose last arm resolves every other token to Chore
from_str_default(s) ==
    IF s = <<"f", "e", "a", "t">> THEN <<"Feat">>
    ELSE IF s = <<"f", "i", "x">> THEN <<"Fix">>
    ELSE IF s = <<"d", "o", "c", "s">> THEN <<"Docs">>
    ELSE IF s = <<"s", "t", "y", "l", "e">> THEN <<"Style">>
    ELSE IF s = <<"r", "e", "f", "a", "c", "t", "o", "r">> THEN <<"Refactor">>
    ELSE IF s = <<"p", "e", "r", "f">> THEN <<"Perf">>
    ELSE IF s = <<"t", "e", "s", "t">> THEN <<"Test">>
    ELSE <<"Chore">>

\* impl FromStr for CommitType: Ok(t) as <<t>>, Err(InvalidCommitType) as <<>>
from_str(s) ==
    IF s = <<"f", "e", "a", "t">> THEN <<"Feat">>
    ELSE IF s = <<"f", "i", "x">> THEN <<"Fix">>
    ELSE IF s = <<"d", "o", "c", "s">> THEN <<"Docs">>
    ELSE IF s = <<"s", "t", "y", "l", "e">> THEN <<"Style">>
    ELSE IF s = <<"r", "e", "f", "a", "c", "t", "o", "r">> THEN <<"Refactor">>
    ELSE IF s = <<"p", "e", "r", "f">> THEN <<"Perf">>
    ELSE IF s = <<"t", "e", "s", "t">> THEN <<"Test">>
    ELSE IF s = <<"c", "h", "o", "r", "e">> THEN <<"Chore">>
    ELSE <<>>

-----------------------------------------------------------------------------
(* The header parser (parse.rs).                                           *)

\* CommitHeader { commit_type, scope: Option<&str>, subject }
CommitHeader(t, scope, subject) ==
    [commit_type |-> t, scope |-> scope, subject |-> subject]

NoHeader == CommitHeader("None", <<>>, <<>>)

\* Return the string without `squash! ` or `fixup! `
discard_autosquash(line) ==
    IF starts_with(line, <<"f", "i", "x", "u", "p", "!", " ">>)
    THEN Slice(line, 7, Len(line))
    ELSE IF starts_with(line, <<"s", "q", "u", "a", "s", "h", "!", " ">>)
    THEN Slice(line, 8, Len(line))
    ELSE line

is_trimmed(s) == s = trim(s)

\* Result<(&str, Option<&str>), FormatError>
parse_commit_type_and_scope(commit_type_and_scope) ==
    LET s == commit_type_and_scope
        fail(e) == [ok |-> FALSE, err |-> e, commit_type |-> <<>>, scope |-> <<>>]
    IN  IF s = <<>> THEN fail(FromKind("EmptyCommitType"))
        ELSE IF s[1] \in Whitespace
        THEN fail(At("MisplacedWhitespace", s, 0))
        ELSE IF s[Len(s)] \in Whitespace
        THEN fail(At("MisplacedWhitespace", s, Len(s) - 1))
        ELSE IF s[Len(s)] = ")"
        THEN LET opening_parenthesis == find(s, "(")
             IN  IF opening_parenthesis = <<>>
                 THEN fail(FromKind("MissingParenthesis"))
                 ELSE [ok |-> TRUE, err |-> NoError,
                       commit_type |-> Slice(s, 0, opening_parenthesis[1]),
                       scope |-> <<Slice(s, opening_parenthesis[1] + 1, Len(s) - 1)>>]
        ELSE [ok |-> TRUE, err |-> NoError, commit_type |-> s, scope |-> <<>>]

\* Result<CommitHeader, FormatError>
parse_commit_header(header_line) ==
    LET line == discard_autosquash(header_line)
        fail(e) == [ok |-> FALSE, err |-> e, header |-> NoHeader]
        column == find(line, ":")
    IN  IF column = <<>> THEN fail(FromKind("NoColumn"))
        ELSE
        LET column_pos == column[1]
            ts == parse_commit_type_and_scope(Slice(line, 0, column_pos))
        IN  IF ~ts.ok THEN fail(ts.err)
            ELSE
            LET commit_type == from_str(ts.commit_type)
            IN  IF commit_type = <<>> THEN fail(At("InvalidCommitType", line, 0))
                ELSE IF get(line, column_pos + 1, column_pos + 2) # << <<" ">> >>
                THEN fail(At("MissingWhitespace", line, column_pos + 1))
                ELSE
                LET subject_pos == column_pos + 2
                    subject == Slice(line, subject_pos, Len(line))
                IN  IF subject = <<>> THEN fail(FromKind("EmptyCommitSubject"))
                    ELSE IF ~is_trimmed(subject)
                    THEN fail(FromKind("MisplacedWhitespace"))
                    ELSE [ok |-> TRUE, err |-> NoError,
                          header |-> CommitHeader(commit_type[1], ts.scope, subject)]

Returned(tag, err, header) == [tag |-> tag, err |-> err, header |-> header]

\* a parse_commit_message that parses the header before it looks at line 2
parse_commit_message_header_first(msg) ==
    LET ls == str_lines(msg)
    IN  IF ls = <<>> THEN Returned("Panic", NoError, NoHeader)
        ELSE LET h == parse_commit_header(ls[1])
             IN  IF ~h.ok THEN Returned("Err", h.err, NoHeader)
                 ELSE IF Len(ls) >= 2 /\ ls[2] # <<>>
                 THEN Returned("Err", FromKind("NonEmptySecondLine"), NoHeader)
                 ELSE Returned("Ok", NoError, h.header)

\* Result<CommitMsg, FormatError>; "Panic" is the index panic of lines[0]
parse_commit_message(msg) ==
    LET ls == str_lines(msg)
    IN  IF Len(ls) >= 2 /\ ls[2] # <<>>
        THEN Returned("Err", FromKind("NonEmptySecondLine"), NoHeader)
        ELSE IF ls = <<>> THEN Returned("Panic", NoError, NoHeader)
        ELSE LET h == parse_commit_header(ls[1])
             IN  IF h.ok THEN Returned("Ok", NoError, h.header)
                 ELSE Returned("Err", h.err, NoHeader)

-----------------------------------------------------------------------------
(* validate_commit_message (lib.rs), check by check.                       *)

MaxLineLen == 100

Outcome(tag, err) == [tag |-> tag, err |-> err]

NoOutcome == Outcome("None", NoError)

\* input.starts_with("Merge ") || input.starts_with("WIP")
is_bypassed(in) ==
    \/ starts_with(in, <<"M", "e", "r", "g", "e", " ">>)
    \/ starts_with(in, <<"W", "I", "P">>)

\* for line in &lines { if line.len() > 100 { return Err(..) } }
line_too_long(ls) ==
    LET long == {i \in 1..Len(ls) : Len(ls[i]) > MaxLineLen}
    IN  IF long = {} THEN NoOutcome
        ELSE LET i == CHOOSE i \in long : \A j \in long : i <= j
             IN  Outcome("Err", [kind |-> "LineTooLong", arg |-> MaxLineLen,
                                 location |-> <<Span(ls[i], MaxLineLen)>>])

\* subject.chars().next().unwrap().is_uppercase(), and the position reported
capitalized_first_letter(header, ls) ==
    IF header.subject[1] \in Uppercase
    THEN LET pos == Len(into_str(header.commit_type))
                    + (IF header.scope = <<>> THEN 0 ELSE Len(header.scope[1]) + 2)
                    + 3
         IN  Outcome("Err", [kind |-> "CapitalizedFirstLetter", arg |-> 0,
                             location |-> <<Span(ls[1], pos)>>])
    ELSE NoOutcome

\* the whole function, as one value
validate_commit_message(in) ==
    IF is_bypassed(in) THEN Outcome("Ok", NoError)
    ELSE LET ls == str_lines(in)
             m == parse_commit_message(in)
         IN  IF m.tag # "Ok" THEN Outcome(m.tag, m.err)
             ELSE IF line_too_long(ls) # NoOutcome THEN line_too_long(ls)
             ELSE IF capitalized_first_letter(m.header, ls) # NoOutcome
             THEN capitalized_first_letter(m.header, ls)
             ELSE Outcome("Ok", NoError)

-----------------------------------------------------------------------------
(* The messages the validator is run on.                                   *)

\* padded lines have MaxLineLen - PadSlack .. MaxLineLen + PadSlack bytes
PadSlack == 1

\* a message carries at most MaxBody lines after its header
MaxBody == 2

Repeat(c, k) == [i \in 1..k |-> c]

\* k times the two-byte character U+00E9
RepeatE(k) == [i \in 1..(2 * k) |-> IF i % 2 = 1 THEN "C3" ELSE "A9"]

Leads == {<<>>, <<"#", " ", "c", "\n">>}

Prefixes == {<<>>,
             <<"f", "i", "x", "u", "p", "!", " ">>,
             <<"s", "q", "u", "a", "s", "h", "!", " ">>,
             <<"M", "e", "r", "g", "e", " ">>,
             <<"W", "I", "P">>}

ValidTokens == {<<"f", "e", "a", "t">>, <<"f", "i", "x">>, <<"d", "o", "c", "s">>,
                <<"s", "t", "y", "l", "e">>,
                <<"r", "e", "f", "a", "c", "t", "o", "r">>,
                <<"p", "e", "r", "f">>, <<"t", "e", "s", "t">>,
                <<"c", "h", "o", "r", "e">>}

Tokens == {<<"f", "e", "a", "t">>, <<"d", "o", "c", "s">>, <<"f", "e", "e", "t">>,
           <<"F", "e", "a", "t">>, <<"f", "e", "a", "t", "s">>,
           <<>>, <<" ", "f", "e", "a", "t">>, <<"f", "e", "a", "t", " ">>}

Scopes == {<<>>, <<"(", "l", "i", "b", ")">>, <<"(", ")">>,
           <<"(", "a", ")", "(", "b", ")">>, <<"(", "(", "a", ")", ")">>,
           <<"l", "i", "b", ")">>}

Separators == {<<":", " ">>, <<":">>, <<>>, <<":", " ", " ">>}

Subjects == {<<"a", "d", "d", " ", "x">>, <<"A", "d", "d", " ", "x">>, <<>>,
             <<"a", "d", "d", " ", "x", " ">>, <<"C3", "A9", " ", "x">>}

\* one line, every lexical case of the header
HeaderInputs ==
    {lead \o pre \o tok \o sc \o sep \o subj :
        lead \in Leads, pre \in Prefixes, tok \in Tokens, sc \in Scopes,
        sep \in Separators, subj \in Subjects}

\* one line, every commit type
TypeInputs ==
    {pre \o tok \o sc \o <<":", " ">> \o subj :
        pre \in {<<>>, <<"f", "i", "x", "u", "p", "!", " ">>},
        tok \in ValidTokens,
        sc \in {<<>>, <<"(", "l", "i", "b", ")">>},
        subj \in {<<"a", "d", "d", " ", "x">>, <<"A", "d", "d", " ", "x">>}}

LongHeaders == {<<"f", "e", "a", "t", ":", " ", "a", "d", "d", " ", "x">>,
                <<"f", "e", "a", "t", ":", " ", "A", "d", "d", " ", "x">>,
                <<"f", "e", "e", "t", ":", " ", "a", "d", "d", " ", "x">>,
                <<"M", "e", "r", "g", "e", " ", "x">>}

\* h itself, h filled with "a" up to the limit and around it, and h filled
\* with U+00E9 up to at most the limit and just over it
Padded(h) ==
    {h}
    \cup {h \o Repeat("a", n - Len(h)) :
             n \in (MaxLineLen - PadSlack)..(MaxLineLen + PadSlack)}
    \cup {h \o RepeatE(k) :
             k \in ((MaxLineLen - Len(h)) \div 2)..((MaxLineLen - Len(h)) \div 2 + 1)}

BodyLines == {<<>>,
              <<"b", "o", "d", "y">>,
              <<"#", " ", "c">>,
              Repeat("b", MaxLineLen),
              Repeat("b", MaxLineLen + 1),
              <<"#">> \o Repeat("c", MaxLineLen)}

Bodies == UNION {[1..n -> BodyLines] : n \in 0..MaxBody}

RECURSIVE Join(_)
Join(body) ==
    IF body = <<>> THEN <<>>
    ELSE <<"\n">> \o body[1] \o Join(Tail(body))

\* header and body lines, around the length limit
BodyInputs ==
    {h \o Join(b) : h \in UNION {Padded(l) : l \in LongHeaders}, b \in Bodies}

\* no line at all, and empty lines only
EdgeInputs == {<<>>, <<"\n">>, <<"\n", "\n">>}

Inputs == HeaderInputs \cup TypeInputs \cup BodyInputs \cup EdgeInputs

-----------------------------------------------------------------------------
(* One run of validate_commit_message(input).                              *)

Init ==
    /\ input \in Inputs
    /\ pc = "start"
    /\ lines = <<>>
    /\ message = Returned("None", NoError, NoHeader)
    /\ result = NoOutcome

\* lib.rs 183-185
Bypass ==
    /\ pc = "start"
    /\ IF is_bypassed(input)
       THEN pc' = "done" /\ result' = Outcome("Ok", NoError)
       ELSE pc' = "lines" /\ result' = result
    /\ UNCHANGED <<input, lines, message>>

\* lib.rs 187
CollectLines ==
    /\ pc = "lines"
    /\ lines' = str_lines(input)
    /\ pc' = "parse"
    /\ UNCHANGED <<input, message, result>>

\* lib.rs 189
ParseMessage ==
    /\ pc = "parse"
    /\ message' = parse_commit_message(input)
    /\ IF message'.tag = "Ok"
       THEN pc' = "length" /\ result' = result
       ELSE pc' = "done" /\ result' = Outcome(message'.tag, message'.err)
    /\ UNCHANGED <<input, lines>>

\* lib.rs 191-197
CheckLineLength ==
    /\ pc = "length"
    /\ IF line_too_long(lines) # NoOutcome
       THEN pc' = "done" /\ result' = line_too_long(lines)
       ELSE pc' = "capital" /\ result' = result
    /\ UNCHANGED <<input, lines, message>>

\* lib.rs 199-215
CheckCapitalized ==
    /\ pc = "capital"
    /\ result' = IF capitalized_first_letter(message.header, lines) # NoOutcome
                 THEN capitalized_first_letter(message.header, lines)
                 ELSE Outcome("Ok", NoError)
    /\ pc' = "done"
    /\ UNCHANGED <<input, lines, message>>

Next == Bypass \/ CollectLines \/ ParseMessage \/ CheckLineLength \/ CheckCapitalized

Spec == Init /\ [][Next]_vars

-----------------------------------------------------------------------------
(* What the properties below speak of.                                     *)

\* the eight commit types and their lowercase text
TypeText(t) ==
    CASE t = "Feat"     -> <<"f", "e", "a", "t">>
      [] t = "Fix"      -> <<"f", "i", "x">>
      [] t = "Docs"     -> <<"d", "o", "c", "s">>
      [] t = "Style"    -> <<"s", "t", "y", "l", "e">>
      [] t = "Refactor" -> <<"r", "e", "f", "a", "c", "t", "o", "r">>
      [] t = "Perf"     -> <<"p", "e", "r", "f">>
      [] t = "Test"     -> <<"t", "e", "s", "t">>
      [] t = "Chore"    -> <<"c", "h", "o", "r", "e">>

TypeTexts == {TypeText(t) : t \in CommitType}

\* the number of characters of a line: the bytes that start a character
CharCount(line) == Cardinality({i \in 1..Len(line) : line[i] \notin ContinuationBytes})

IsComment(line) == starts_with(line, <<"#">>)

\* the lines that are not comment lines, in order
Surviving(ls) == SelectSeq(ls, LAMBDA l : ~IsComment(l))

RECURSIVE Unlines(_)
Unlines(ls) ==
    IF ls = <<>> THEN <<>>
    ELSE ls[1] \o <<"\n">> \o Unlines(Tail(ls))

\* the message with all its comment lines removed
StripComments(in) == Unlines(Surviving(str_lines(in)))

\* the "(" that matches the ")" ending s, as <<offset>>; <<>> if there is none
MatchingOpen(s) ==
    LET count(c, i) == Cardinality({j \in i..Len(s) : s[j] = c})
        opens == {i \in 1..Len(s) : s[i] = "(" /\ count("(", i) = count(")", i)}
    IN  IF opens = {} THEN <<>>
        ELSE <<(CHOOSE i \in opens : \A j \in opens : i >= j) - 1>>

\* the header line of the run and what the parser makes of it
InputLines == str_lines(input)
HeaderLine == discard_autosquash(InputLines[1])
HasColumn == InputLines # <<>> /\ find(HeaderLine, ":") # <<>>
Segment == Slice(HeaderLine, 0, find(HeaderLine, ":")[1])
Decomposed == parse_commit_type_and_scope(Segment)

\* the rules, each on its own
SecondLineFault == Len(InputLines) >= 2 /\ InputLines[2] # <<>>
HeaderFault == ~parse_commit_header(InputLines[1]).ok
LengthFault == \E i \in 1..Len(InputLines) : Len(InputLines[i]) > MaxLineLen
CapitalFault == parse_commit_header(InputLines[1]).header.subject[1] \in Uppercase

Failed(kind) == result.tag = "Err" /\ result.err.kind = kind
Accepted == result.tag = "Ok"

-----------------------------------------------------------------------------
(* Properties.                                                             *)

\* C1: a message whose first non-comment line starts with "Merge " or "WIP"
\* is accepted, whatever else it contains.
C1_BypassOnFirstSurvivingLine ==
    (/\ pc = "done"
     /\ Surviving(InputLines) # <<>>
     /\ is_bypassed(Surviving(InputLines)[1]))
    => Accepted

\* C2: the checks run in the order bypass, blank second line, header, line
\* length, capitalization; the fault reported is that of the first rule
\* violated in this order, and the message is accepted only if all pass.
C2_FirstFaultWins ==
    (pc = "done" /\ result.tag # "Panic") =>
        IF is_bypassed(input) THEN Accepted
        ELSE IF SecondLineFault THEN Failed("NonEmptySecondLine")
        ELSE IF HeaderFault
             THEN Failed(parse_commit_header(InputLines[1]).err.kind)
        ELSE IF LengthFault THEN Failed("LineTooLong")
        ELSE IF CapitalFault THEN Failed("CapitalizedFirstLetter")
        ELSE Accepted

\* C2 witness: a finished run on a message that is both too long and
\* capitalized, rejected for its length.
C2_Witness ==
    /\ pc = "done"
    /\ ~is_bypassed(input)
    /\ InputLines # <<>>
    /\ ~SecondLineFault /\ ~HeaderFault
    /\ LengthFault /\ CapitalFault
    /\ Failed("LineTooLong")

\* C3: once the second-line check and the header parse have passed, the
\* message fails with LineTooLong(100) exactly if some line has more than
\* 100 characters, and the fault points at column 100 of such a line.
C3_LineLengthInCharacters ==
    (pc = "done" /\ ~is_bypassed(input) /\ message.tag = "Ok") =>
        /\ (Failed("LineTooLong") /\ result.err.arg = 100)
             <=> (\E i \in 1..Len(InputLines) : CharCount(InputLines[i]) > 100)
        /\ Failed("LineTooLong") =>
             /\ result.err.location # NoLocation
             /\ result.err.location[1].pos = 100
             /\ CharCount(result.err.location[1].line) > 100

\* C4: a capitalized subject that passes all earlier checks fails with
\* CapitalizedFirstLetter, at the column where the subject starts in the
\* reported line: len(type) + (len(scope) + 2 if scoped) + 2.
C4_CapitalizedColumn ==
    (/\ pc = "done"
     /\ message.tag = "Ok"
     /\ line_too_long(lines) = NoOutcome
     /\ message.header.subject[1] \in Uppercase)
    => /\ Failed("CapitalizedFirstLetter")
       /\ result.err.location # NoLocation
       /\ LET span == result.err.location[1]
              h == message.header
          IN  /\ span.pos = Len(TypeText(h.commit_type))
                            + (IF h.scope = <<>> THEN 0 ELSE Len(h.scope[1]) + 2)
                            + 2
              /\ Slice(span.line, span.pos, Len(span.line)) = h.subject

\* the header text rebuilt from the parsed fields
Rebuild(h) ==
    IF h.scope = <<>>
    THEN into_str(h.commit_type) \o <<":", " ">> \o h.subject
    ELSE into_str(h.commit_type) \o <<"(">> \o h.scope[1] \o <<")">>
         \o <<":", " ">> \o h.subject

\* C5: an accepted header is reproduced by rebuilding it from its parsed
\* fields (the text the parser analysed, after the autosquash prefix), and
\* the two type mappings are inverse of each other.
C5_RoundTrip ==
    (pc \in {"length", "capital", "done"} /\ message.tag = "Ok") =>
        /\ Rebuild(message.header) = HeaderLine
        /\ from_str(into_str(message.header.commit_type))
             = <<message.header.commit_type>>

\* C6: comment lines are dropped first: a message with some line that is
\* not a comment has the outcome (success, or the same fault and position)
\* of the message without its "#" lines.
C6_CommentLinesDropped ==
    (pc = "done" /\ Surviving(InputLines) # <<>>)
    => result = validate_commit_message(StripComments(input))

\* C7: when the type-and-scope segment decomposes, a type token outside the
\* eight types makes the header parse fail with InvalidCommitType, a token
\* of the set never does, and a parsed header carries the type of its token.
C7_ClosedTypeSet ==
    (/\ pc \in {"length", "capital", "done"}
     /\ message.tag \in {"Ok", "Err"}
     /\ ~SecondLineFault
     /\ HasColumn
     /\ Decomposed.ok)
    => /\ Decomposed.commit_type \notin TypeTexts
            => message.tag = "Err" /\ message.err.kind = "InvalidCommitType"
       /\ Decomposed.commit_type \in TypeTexts
            => message.err.kind # "InvalidCommitType"
       /\ message.tag = "Ok"
            => /\ message.header.commit_type \in CommitType
               /\ TypeText(message.header.commit_type) = Decomposed.commit_type

\* C7 witness: the header parse has rejected the token "feet".
C7_Witness ==
    /\ pc = "done"
    /\ message.tag = "Err"
    /\ ~SecondLineFault
    /\ HasColumn
    /\ Decomposed.ok
    /\ Decomposed.commit_type = <<"f", "e", "e", "t">>
    /\ Failed("InvalidCommitType")

\* C8: in a message without comment lines, a non-empty second line fails
\* with NonEmptySecondLine positioned at line 2, column 0; without one the
\* rule raises no fault.
C8_SecondLinePositioned ==
    (pc = "done" /\ ~is_bypassed(input) /\ Surviving(InputLines) = InputLines) =>
        IF SecondLineFault
        THEN /\ Failed("NonEmptySecondLine")
             /\ result.err.location = <<Span(InputLines[2], 0)>>
        ELSE ~Failed("NonEmptySecondLine")

\* C9: a segment ending with ")" is split at the "(" matching that ")",
\* with MissingParenthesis if there is none; any other segment is the type.
C9_SplitAtMatchingParenthesis ==
    (/\ message.tag # "None"
     /\ HasColumn
     /\ Segment # <<>>
     /\ Segment[1] \notin Whitespace
     /\ Segment[Len(Segment)] \notin Whitespace)
    => IF Segment[Len(Segment)] = ")"
       THEN IF MatchingOpen(Segment) = <<>>
            THEN ~Decomposed.ok /\ Decomposed.err.kind = "MissingParenthesis"
            ELSE /\ Decomposed.ok
                 /\ Decomposed.commit_type = Slice(Segment, 0, MatchingOpen(Segment)[1])
                 /\ Decomposed.scope
                      = <<Slice(Segment, MatchingOpen(Segment)[1] + 1, Len(Segment) - 1)>>
       ELSE Decomposed.ok /\ Decomposed.commit_type = Segment /\ Decomposed.scope = <<>>

\* C10: every run ends in success or in a returned fault, never in a panic.
C10_NoPanic ==
    pc = "done" => result.tag \in {"Ok", "Err"}

====
